---- MODULE Spec2Model ----
(***************************************************************************)
(* Static asset server of assets/vironax-localization-fix.js (lines        *)
(* 305-394): resolveFilePath and the http.createServer request handler,    *)
(* over an explicit model of the filesystem the handler probes and reads   *)
(* (specification Spec).  The storefront scripts of                        *)
(* assets/currency-language-persistence.js follow, each with its own       *)
(* specification: the selection persistence (SpecPersist), the dropdown    *)
(* enhancement under its MutationObserver (SpecEnhance) and the sticky     *)
(* elements controller (SpecSticky).                                       *)
(*                                                                         *)
(* Text is a sequence of units.  A unit is one character ("/", "\\", ".",  *)
(* "?"), one percent escape ("%2E", "%2F", "%5C", "%3F"), a lone "%" that  *)
(* is followed by no two hex digits, or a run of ordinary characters       *)
(* ("a", "index", "html", ...).  Paths are POSIX paths (path.posix).       *)
(***************************************************************************)
EXTENDS Integers, Sequences, FiniteSets, TLC

\* ------------------------------------------------------------------ bounds
\* Longest request target, in tokens of Tokens.
MaxTokens == 2
\* Most filesystem entries the server process is denied access to.
MaxDenied == 1
\* Number of chunks a file's byte stream delivers.
ChunksPerFile == 2
\* Most country_code buttons on a page.
MaxButtons == 3
\* Pending enhancement timers are counted up to this number.
MaxTimers == 4
\* Scroll positions are the multiples of 100 px up to MaxScroll * 100.
MaxScroll == 4
\* Touch points are the multiples of 100 px up to MaxTouch * 100.
MaxTouch == 1

\* --------------------------------------------------------------- text
Range(s) == {s[i] : i \in 1..Len(s)}

Last(s) == s[Len(s)]

Front(s) == SubSeq(s, 1, Len(s) - 1)

RECURSIVE Concat(_)
Concat(ss) == IF ss = <<>> THEN <<>> ELSE Head(ss) \o Concat(Tail(ss))

\* String.prototype.split(sep): the pieces between the separators.
RECURSIVE split(_, _)
split(s, sep) ==
    IF s = <<>> THEN << <<>> >>
    ELSE LET rest == split(Tail(s), sep) IN
         IF Head(s) = sep THEN << <<>> >> \o rest
         ELSE << <<Head(s)>> \o Head(rest) >> \o Tail(rest)

\* requestPath.split('?')[0]
StripQuery(requestPath) == split(requestPath, "?")[1]

\* decodeURIComponent throws URIError on a malformed escape sequence.
DecodeThrows(s) == "%" \in Range(s)

DecodeUnit(u) ==
    CASE u = "%2E" -> "."
      [] u = "%2F" -> "/"
      [] u = "%5C" -> "\\"
      [] u = "%3F" -> "?"
      [] OTHER -> u

decodeURIComponent(s) == [i \in 1..Len(s) |-> DecodeUnit(s[i])]

Dot == <<".">>
DotDot == <<".", ".">>

\* normalizeString of path.posix: drops empty and "." segments, lets ".."
\* remove the segment before it unless that is "..", and keeps a ".." that
\* has nothing to remove only when allowAboveRoot.
RECURSIVE normalizeString(_, _, _)
normalizeString(segs, res, allowAboveRoot) ==
    IF segs = <<>> THEN res
    ELSE LET s == Head(segs) IN
         IF s = <<>> \/ s = Dot
         THEN normalizeString(Tail(segs), res, allowAboveRoot)
         ELSE IF s = DotDot
         THEN IF res # <<>> /\ Last(res) # DotDot
              THEN normalizeString(Tail(segs), Front(res), allowAboveRoot)
              ELSE IF allowAboveRoot
                   THEN normalizeString(Tail(segs), Append(res, DotDot), allowAboveRoot)
                   ELSE normalizeString(Tail(segs), res, allowAboveRoot)
         ELSE normalizeString(Tail(segs), Append(res, s), allowAboveRoot)

RECURSIVE JoinSegs(_)
JoinSegs(segs) ==
    IF segs = <<>> THEN <<>>
    ELSE IF Len(segs) = 1 THEN Head(segs)
    ELSE Head(segs) \o <<"/">> \o JoinSegs(Tail(segs))

\* path.normalize
normalize(p) ==
    IF p = <<>> THEN Dot
    ELSE LET isAbsolute == Head(p) = "/"
             trailingSeparator == Last(p) = "/"
             body == JoinSegs(normalizeString(split(p, "/"), <<>>, ~isAbsolute))
         IN  IF body = <<>>
             THEN IF isAbsolute THEN <<"/">>
                  ELSE IF trailingSeparator THEN <<".", "/">> ELSE Dot
             ELSE (IF isAbsolute THEN <<"/">> ELSE <<>>) \o body
                  \o (IF trailingSeparator THEN <<"/">> ELSE <<>>)

\* .replace(/^([.][.][/\\])+/, '')
RECURSIVE StripLeadingParents(_)
StripLeadingParents(s) ==
    IF Len(s) >= 3 /\ s[1] = "." /\ s[2] = "." /\ s[3] \in {"/", "\\"}
    THEN StripLeadingParents(SubSeq(s, 4, Len(s)))
    ELSE s

\* path.join(a, b): empty arguments are skipped, the rest joined and normalized.
join(a, b) == IF b = <<>> THEN normalize(a) ELSE normalize(a \o <<"/">> \o b)

IndexHtml == <<"index", ".", "html">>

ROOT_DIR == <<"/", "srv">>

PUBLIC_DIR == join(ROOT_DIR, <<"public">>)


\* --------------------------------------------------------- filesystem
\* A filesystem entry is named by the segments of its absolute path.
RootSegs == << <<"srv">> >>
PublicSegs == Append(RootSegs, <<"public">>)

OutsideIndex == << IndexHtml >>
RootIndex == Append(RootSegs, IndexHtml)
PublicIndex == Append(PublicSegs, IndexHtml)
PublicA == Append(PublicSegs, <<"a">>)
PublicAIndex == Append(PublicA, IndexHtml)
RootA == Append(RootSegs, <<"a">>)
RootAIndex == Append(RootA, IndexHtml)

\* Entries that are directories in every filesystem: "/", ROOT_DIR, PUBLIC_DIR.
FixedDirs == {<<>>, RootSegs, PublicSegs}
\* Readable regular files that exist in every filesystem: an upper-case
\* extension of the MIME table and an extension the table does not list.
PublicPng == Append(PublicSegs, <<"b", ".", "PNG">>)
PublicBin == Append(PublicSegs, <<"c", ".", "bin">>)
FixedFiles == {PublicPng, PublicBin}

Nodes == {OutsideIndex, RootIndex, PublicIndex, PublicA, PublicAIndex, RootA, RootAIndex}

Entry(kind, access) == [kind |-> kind, access |-> access]

NoEntry == Entry("none", TRUE)

MkFs(ri, pi, pa, pai, ra, rai, denied) ==
    LET kindOf == (OutsideIndex :> "file") @@ (RootIndex :> ri) @@ (PublicIndex :> pi)
                  @@ (PublicA :> pa) @@ (PublicAIndex :> pai)
                  @@ (RootA :> ra) @@ (RootAIndex :> rai)
    IN  [n \in Nodes |-> Entry(kindOf[n], n \notin denied)]

\* The filesystems the server may run on: an entry has children only if it
\* is a directory; access is denied only to existing files and directories
\* (a file that may not be read, a directory that may not be searched).
FileSystems ==
    { f \in { MkFs(ri, pi, pa, pai, ra, rai, denied) :
                ri \in {"none", "file"}, pi \in {"none", "file"},
                pa \in {"none", "file", "dir", "other"},
                pai \in {"none", "file", "dir"},
                ra \in {"none", "file", "dir"}, rai \in {"none", "file"},
                denied \in {d \in SUBSET (Nodes \ {OutsideIndex}) : Cardinality(d) <= MaxDenied} } :
        /\ f[PublicAIndex].kind # "none" => f[PublicA].kind = "dir"
        /\ f[RootAIndex].kind # "none" => f[RootA].kind = "dir"
        /\ \A n \in Nodes : ~f[n].access => f[n].kind \in {"file", "dir"} }

Lookup(f, segs) ==
    IF segs \in FixedDirs THEN Entry("dir", TRUE)
    ELSE IF segs \in FixedFiles THEN Entry("file", TRUE)
    ELSE IF segs \in Nodes THEN f[segs]
    ELSE NoEntry

\* The segments of an absolute path.
Segments(p) == SelectSeq(split(p, "/"), LAMBDA s : s # <<>>)

Ok(entry) == [err |-> "", kind |-> entry.kind, access |-> entry.access]

Fail(code) == [err |-> code, kind |-> "none", access |-> FALSE]

\* stat(2) path walk: every directory on the way must exist, be a directory
\* and be searchable; a trailing separator requires a directory.
RECURSIVE StatWalk(_, _, _, _)
StatWalk(f, cur, rest, trailing) ==
    LET e == Lookup(f, cur) IN
    IF e.kind = "none" THEN Fail("ENOENT")
    ELSE IF rest = <<>>
         THEN IF trailing /\ e.kind # "dir" THEN Fail("ENOTDIR") ELSE Ok(e)
    ELSE IF e.kind # "dir" THEN Fail("ENOTDIR")
    ELSE IF ~e.access THEN Fail("EACCES")
    ELSE StatWalk(f, Append(cur, Head(rest)), Tail(rest), trailing)

\* fs.statSync: the entry, or the error it throws.
statSync(f, p) == StatWalk(f, <<>>, Segments(p), Len(p) > 1 /\ Last(p) = "/")

\* fs.existsSync: false on every error, whatever its code.
existsSync(f, p) == statSync(f, p).err = ""

\* ----------------------------------------------------------- resolver
Found(p, probes) == [outcome |-> "path", path |-> p, error |-> "", probes |-> probes]

NotFound(probes) == [outcome |-> "null", path |-> <<>>, error |-> "", probes |-> probes]

Thrown(code, probes) == [outcome |-> "throw", path |-> <<>>, error |-> code, probes |-> probes]

\* The for-loop over the candidates (lines 336-353); probes lists the paths
\* handed to statSync and existsSync so far.
RECURSIVE ProbeCandidates(_, _, _)
ProbeCandidates(f, candidates, probes) ==
    IF candidates = <<>> THEN NotFound(probes)
    ELSE LET candidate == Head(candidates)
             stats == statSync(f, candidate)
             probed == Append(probes, candidate)
             indexPath == join(candidate, IndexHtml)
         IN  IF stats.err # ""
             THEN IF stats.err # "ENOENT" THEN Thrown(stats.err, probed)
                  ELSE ProbeCandidates(f, Tail(candidates), probed)
             ELSE IF stats.kind = "file" THEN Found(candidate, probed)
             ELSE IF stats.kind = "dir"
                  THEN IF existsSync(f, indexPath)
                       THEN Found(indexPath, Append(probed, indexPath))
                       ELSE ProbeCandidates(f, Tail(candidates), Append(probed, indexPath))
             ELSE ProbeCandidates(f, Tail(candidates), probed)

\* normalizedPath of line 329.
normalizedPath(decodedPath) == StripLeadingParents(normalize(decodedPath))

\* Mutant of relativePath: the bare root is not mapped to /index.html.
relativePath_NoRootIndex(decodedPath) == normalizedPath(decodedPath)

\* relativePath of line 330.
relativePath(decodedPath) ==
    IF normalizedPath(decodedPath) = <<"/">> THEN <<"/">> \o IndexHtml
    ELSE normalizedPath(decodedPath)

\* Mutant of candidates: the root directory is probed before the public one.
candidates_RootFirst(decodedPath) ==
    << join(ROOT_DIR, relativePath(decodedPath)),
       join(PUBLIC_DIR, relativePath(decodedPath)) >>

\* candidates of lines 331-334, in probing order.
candidates(decodedPath) ==
    << join(PUBLIC_DIR, relativePath(decodedPath)),
       join(ROOT_DIR, relativePath(decodedPath)) >>

\* Mutant of resolveFilePath: the target is decoded before the query is cut.
resolveFilePath_DecodeFirst(f, requestPath) ==
    IF DecodeThrows(requestPath) THEN Thrown("URIError", <<>>)
    ELSE ProbeCandidates(f, candidates(StripQuery(decodeURIComponent(requestPath))), <<>>)

resolveFilePath(f, requestPath) ==
    IF DecodeThrows(StripQuery(requestPath)) THEN Thrown("URIError", <<>>)
    ELSE ProbeCandidates(f, candidates(decodeURIComponent(StripQuery(requestPath))), <<>>)

\* ------------------------------------------------------- content type
\* path.extname: from the last "." of the last segment on, empty when there
\* is none or the segment starts with it.
RECURSIVE LastDot(_, _)
LastDot(base, i) ==
    IF i = 0 THEN 0 ELSE IF base[i] = "." THEN i ELSE LastDot(base, i - 1)

extname(p) ==
    LET segs == Segments(p)
        base == IF segs = <<>> THEN <<>> ELSE Last(segs)
        startDot == LastDot(base, Len(base))
    IN  IF startDot <= 1 \/ base = DotDot THEN <<>>
        ELSE SubSeq(base, startDot, Len(base))

LowerUnit(u) ==
    CASE u = "PNG" -> "png"
      [] u = "HTML" -> "html"
      [] OTHER -> u

\* Mutant of toLowerCase: the case of the extension is kept.
toLowerCase_Identity(s) == s

toLowerCase(s) == [i \in 1..Len(s) |-> LowerUnit(s[i])]

MIME_TYPES ==
    (<<".", "html">> :> "text/html; charset=utf-8")
    @@ (<<".", "css">> :> "text/css; charset=utf-8")
    @@ (<<".", "js">> :> "application/javascript; charset=utf-8")
    @@ (<<".", "json">> :> "application/json; charset=utf-8")
    @@ (<<".", "png">> :> "image/png")
    @@ (<<".", "jpg">> :> "image/jpeg")
    @@ (<<".", "jpeg">> :> "image/jpeg")
    @@ (<<".", "gif">> :> "image/gif")
    @@ (<<".", "svg">> :> "image/svg+xml")
    @@ (<<".", "ico">> :> "image/x-icon")
    @@ (<<".", "txt">> :> "text/plain; charset=utf-8")

\* Mutant of contentType: the MIME table is never consulted.
contentType_AlwaysBinary(filePath) == "application/octet-stream"

\* lines 380-381
contentType(filePath) ==
    LET ext == toLowerCase(extname(filePath)) IN
    IF ext \in DOMAIN MIME_TYPES THEN MIME_TYPES[ext] ELSE "application/octet-stream"

PlainText == "text/plain; charset=utf-8"

\* ----------------------------------------------------------- response
\* A body chunk: a chunk of a file, or a literal text.
Text(t) == [file |-> <<>>, chunk |-> 0, text |-> t]

FileChunk(segs, k) == [file |-> segs, chunk |-> k, text |-> ""]

\* The bytes of the regular file at segs, as the chunks its stream delivers.
Bytes(segs) == [k \in 1..ChunksPerFile |-> FileChunk(segs, k)]

\* http.ServerResponse: headCalls lists the status of every writeHead call,
\* statusCode is the status of the header in place (0: none yet), flushed
\* says whether anything was handed to the socket, ends counts end() calls.
NewResponse ==
    [headCalls |-> <<>>, statusCode |-> 0, contentType |-> "", flushed |-> FALSE,
     body |-> <<>>, ends |-> 0, threw |-> FALSE]

\* res.writeHead: throws ERR_HTTP_HEADERS_SENT once a header is in place.
writeHead(r, status, type) ==
    IF r.statusCode # 0
    THEN [r EXCEPT !.headCalls = Append(@, status), !.threw = TRUE]
    ELSE [r EXCEPT !.headCalls = Append(@, status), !.statusCode = status,
                   !.contentType = type]

\* res.write(chunk), as pipe() calls it for every chunk read.
write(r, chunk) == [r EXCEPT !.body = Append(@, chunk), !.flushed = TRUE]

\* res.end(data)
end(r, data) == [r EXCEPT !.body = @ \o data, !.flushed = TRUE, !.ends = @ + 1]

NoStream == [state |-> "none", path |-> <<>>, pos |-> 0, fd |-> FALSE]

NoResolution == [outcome |-> "none", path |-> <<>>, error |-> "", probes |-> <<>>]

\* ----------------------------------------------------------- requests
Tokens == {"/", "..", "a", "index.html", "?", "%", "\\", "%2F", "%2E", "%3F"}

TokenUnits(t) ==
    CASE t = ".." -> DotDot
      [] t = "index.html" -> IndexHtml
      [] OTHER -> <<t>>

\* Longer request targets: the files with an extension other than .html, a
\* target with a non-empty query, and one whose query holds an escape.
LongUrls ==
    { <<"/", "b", ".", "PNG">>, <<"/", "c", ".", "bin">>,
      <<"/", "a", "?", "a">>, <<"/", "a", "?", "%3F">>, <<"/", "a", "%3F", "a">> }

\* The request targets: every string of at most MaxTokens tokens, and LongUrls.
Urls ==
    { Concat([i \in 1..Len(ts) |-> TokenUnits(ts[i])]) :
        ts \in UNION {[1..n -> Tokens] : n \in 0..MaxTokens} } \cup LongUrls

\* req.url: present is FALSE when the request carries no url at all.
Requests == {[present |-> TRUE, url |-> u] : u \in Urls}
            \cup {[present |-> FALSE, url |-> <<>>]}

\* ------------------------------------------------------------- state
VARIABLES
    fs,          \* the filesystem the server runs on
    phase,       \* "idle", "streaming" (handler returned, stream in flight),
                 \* "aborted" (the client closed the connection), "done"
    req,         \* the request of the current exchange
    res,         \* its response object
    resolution,  \* what resolveFilePath returned for it (outcome "none": not called)
    stream,      \* the read stream of line 383
    crashed,     \* the process died of an uncaught exception
    loc,         \* currency-language-persistence.js: stores, page, last choice
    enh,         \* its dropdown enhancement: DOM order, flags, pending timers
    sticky,      \* its sticky controller: scroll position, timers, UI state
    pop          \* vironax-localization-fix.js: the toggles and popovers of the page

serverVars == <<fs, phase, req, res, resolution, stream, crashed>>

browserVars == <<loc, enh, sticky, pop>>

vars == <<serverVars, browserVars>>

\* No page of the storefront is open in a browser.
NoBrowser == [open |-> FALSE]

NoRequest == [present |-> FALSE, url |-> <<>>]

Init ==
    /\ fs \in FileSystems
    /\ phase = "idle"
    /\ req = NoRequest
    /\ res = NewResponse
    /\ resolution = NoResolution
    /\ stream = NoStream
    /\ crashed = FALSE
    /\ loc = NoBrowser /\ enh = NoBrowser /\ sticky = NoBrowser /\ pop = NoBrowser

\* Mutant of UrlMissing: only an absent url is rejected (req.url === undefined).
UrlMissing_OnlyUndefined(r) == ~r.present

\* !req.url (line 359): undefined and the empty string are falsy.
UrlMissing(r) == ~r.present \/ r.url = <<>>

\* Mutant of Reply: the body carries a detail after the fixed text.
Reply_WithDetail(status, text) ==
    end(writeHead(NewResponse, status, PlainText), <<Text(text), Text("detail")>>)

\* writeHead(status) then end(text) of lines 360-361, 369-370, 375-376.
Reply(status, text) == end(writeHead(NewResponse, status, PlainText), <<Text(text)>>)

\* The request handler, lines 358-389, up to its return.
Handle(r) ==
    /\ phase = "idle"
    /\ ~crashed
    /\ req' = r
    /\ IF UrlMissing(r)
       THEN /\ res' = Reply(400, "Bad Request")
            /\ resolution' = NoResolution
            /\ stream' = NoStream
            /\ phase' = "done"
       ELSE LET filePath == resolveFilePath(fs, r.url) IN
            /\ resolution' = filePath
            /\ IF filePath.outcome = "throw"
               THEN /\ res' = Reply(500, "Internal Server Error")
                    /\ stream' = NoStream
                    /\ phase' = "done"
               ELSE IF filePath.outcome = "null"
               THEN /\ res' = Reply(404, "Not Found")
                    /\ stream' = NoStream
                    /\ phase' = "done"
               ELSE /\ res' = writeHead(NewResponse, 200, contentType(filePath.path))
                    /\ stream' = [state |-> "opening", path |-> filePath.path,
                                  pos |-> 0, fd |-> FALSE]
                    /\ phase' = "streaming"
    /\ UNCHANGED <<fs, crashed>>
    /\ UNCHANGED browserVars

Request == \E r \in Requests : Handle(r)

\* open(2) for reading succeeds on an existing entry the process may read.
OpenSucceeds(f, p) ==
    LET st == statSync(f, p) IN st.err = "" /\ (st.kind = "file" => st.access)

\* The stream's 'error' listener, lines 384-387.
OnStreamError ==
    LET r == writeHead(res, 500, PlainText) IN
    IF r.threw
    THEN /\ res' = r
         /\ crashed' = TRUE
    ELSE /\ res' = end(r, <<Text("Internal Server Error")>>)
         /\ crashed' = crashed

\* The stream opened its file.
StreamOpen ==
    /\ phase \in {"streaming", "aborted"} /\ stream.state = "opening"
    /\ OpenSucceeds(fs, stream.path)
    /\ stream' = [stream EXCEPT !.state = "open", !.fd = TRUE]
    /\ UNCHANGED <<fs, phase, req, res, resolution, crashed>>
    /\ UNCHANGED browserVars

\* The open failed: 'error' is emitted, nothing was opened.
StreamOpenError ==
    /\ phase \in {"streaming", "aborted"} /\ stream.state = "opening"
    /\ ~OpenSucceeds(fs, stream.path)
    /\ OnStreamError
    /\ stream' = [stream EXCEPT !.state = "failed"]
    /\ phase' = "done"
    /\ UNCHANGED <<fs, req, resolution>>
    /\ UNCHANGED browserVars

\* A chunk was read; pipe() writes it to the response.
StreamData ==
    /\ phase = "streaming" /\ stream.state = "open"
    /\ statSync(fs, stream.path).kind = "file"
    /\ stream.pos < ChunksPerFile
    /\ res' = write(res, FileChunk(Segments(stream.path), stream.pos + 1))
    /\ stream' = [stream EXCEPT !.pos = @ + 1]
    /\ UNCHANGED <<fs, phase, req, resolution, crashed>>
    /\ UNCHANGED browserVars

\* A read failed (EISDIR on a directory, an I/O error on a file): the stream
\* closes its descriptor (autoClose) and emits 'error'.
StreamReadError ==
    /\ phase = "streaming" /\ stream.state = "open"
    /\ OnStreamError
    /\ stream' = [stream EXCEPT !.state = "failed", !.fd = FALSE]
    /\ phase' = "done"
    /\ UNCHANGED <<fs, req, resolution>>
    /\ UNCHANGED browserVars

\* End of file: the stream closes its descriptor and pipe() ends the response.
StreamEnd ==
    /\ phase = "streaming" /\ stream.state = "open"
    /\ statSync(fs, stream.path).kind = "file"
    /\ stream.pos = ChunksPerFile
    /\ res' = end(res, <<>>)
    /\ stream' = [stream EXCEPT !.state = "ended", !.fd = FALSE]
    /\ phase' = "done"
    /\ UNCHANGED <<fs, req, resolution, crashed>>
    /\ UNCHANGED browserVars

\* The client closed the connection before the body was sent: the response
\* emits 'close', pipe() (line 388) unpipes the stream from it and the stream
\* stops flowing.  Nothing in lines 383-388 destroys the stream.
ClientDisconnect ==
    /\ phase = "streaming" /\ stream.state \in {"opening", "open"}
    /\ phase' = "aborted"
    /\ UNCHANGED <<fs, req, res, resolution, stream, crashed>>
    /\ UNCHANGED browserVars

\* The exchange is over; the server waits for the next request.
NextExchange ==
    /\ phase = "done"
    /\ ~crashed
    /\ phase' = "idle"
    /\ req' = NoRequest
    /\ res' = NewResponse
    /\ resolution' = NoResolution
    /\ stream' = NoStream
    /\ UNCHANGED <<fs, crashed>>
    /\ UNCHANGED browserVars

Next ==
    \/ Request
    \/ StreamOpen
    \/ StreamOpenError
    \/ StreamData
    \/ StreamReadError
    \/ StreamEnd
    \/ ClientDisconnect
    \/ NextExchange

Spec == Init /\ [][Next]_vars

\* ------------------------------------------------------------ claims
\* p lies below the directory base.
IsUnder(p, base) ==
    LET ps == Segments(p)
        bs == Segments(base)
    IN  Len(ps) > Len(bs) /\ SubSeq(ps, 1, Len(bs)) = bs

\* The current request carries a path that percent-decodes.
Decodable == req.present /\ req.url # <<>> /\ "%" \notin Range(StripQuery(req.url))

DecodedPath == decodeURIComponent(StripQuery(req.url))

\* The path the request names below the public directory, and below the root.
PublicCandidate == join(PUBLIC_DIR, relativePath(DecodedPath))

RootCandidate == join(ROOT_DIR, relativePath(DecodedPath))

\* The entry index.html of the directory at path dir, whatever its permissions.
IndexEntry(dir) == Lookup(fs, Append(Segments(dir), IndexHtml))

IsRegularFile(p) == statSync(fs, p).err = "" /\ statSync(fs, p).kind = "file"

IsDirectory(p) == statSync(fs, p).err = "" /\ statSync(fs, p).kind = "dir"

InternalServerError == <<Text("Internal Server Error")>>

\* C1: every path resolveFilePath returns lies below the public directory or
\* below the root directory.
C1_NeverOutsideBases ==
    resolution.outcome = "path" =>
        IsUnder(resolution.path, PUBLIC_DIR) \/ IsUnder(resolution.path, ROOT_DIR)

\* The path the request names below the public directory after query
\* stripping, decoding and normalization.
NamedPublicPath == join(PUBLIC_DIR, normalizedPath(DecodedPath))

NamesPublicFile ==
    /\ Decodable
    /\ IsUnder(NamedPublicPath, PUBLIC_DIR)
    /\ IsRegularFile(NamedPublicPath)

\* The content type of the files of Nodes, by their names.
TypeByName(p) ==
    IF Last(Segments(p)) = IndexHtml THEN "text/html; charset=utf-8"
    ELSE IF Last(Segments(p)) = Last(PublicPng) THEN "image/png"
    ELSE "application/octet-stream"

ServedWhole(p) ==
    /\ res.statusCode = 200
    /\ res.headCalls = <<200>>
    /\ res.contentType = TypeByName(p)
    /\ res.body = Bytes(Segments(p))
    /\ res.ends = 1

C3_ExactlyOneResponse ==
    phase = "done" => Len(res.headCalls) = 1 /\ res.ends = 1

\* C4: when the stream fails before anything of the response was sent, the
\* client receives status 500 with body Internal Server Error.
C4_StreamErrorIs500 ==
    (phase = "done" /\ stream.state = "failed" /\ stream.pos = 0) =>
        /\ res.statusCode = 500
        /\ res.flushed
        /\ res.body = InternalServerError

\* C5: a request path whose percent-decoding fails is answered 400.
C5_MalformedEscapeIs400 ==
    (phase = "done" /\ req.present /\ req.url # <<>>
        /\ "%" \in Range(StripQuery(req.url)))
        => res.statusCode = 400

\* C6: a request with a missing or empty path is answered 400 Bad Request,
\* and neither the resolver nor the filesystem is touched for it.
C6_MissingPathIs400 ==
    (phase # "idle" /\ (~req.present \/ req.url = <<>>)) =>
        /\ phase = "done"
        /\ res.headCalls = <<400>>
        /\ res.statusCode = 400
        /\ res.contentType = PlainText
        /\ res.body = <<Text("Bad Request")>>
        /\ res.ends = 1
        /\ resolution = NoResolution
        /\ stream = NoStream
        /\ ~crashed

C6_Witness ==
    /\ phase = "done" /\ req.present /\ req.url = <<>>
    /\ res.statusCode = 400
    /\ fs[PublicIndex].kind = "file"

\* C7: every path resolveFilePath returns references an existing regular file.
C7_ReturnsRegularFile ==
    resolution.outcome = "path" => IsRegularFile(resolution.path)

\* C8: a probe that fails with an error other than ENOENT is the last probe
\* of the resolution, and the response is 500 Internal Server Error.
C8_ProbeErrorIs500 ==
    phase = "done" =>
        \A i \in 1..Len(resolution.probes) :
            statSync(fs, resolution.probes[i]).err \notin {"", "ENOENT"} =>
                /\ i = Len(resolution.probes)
                /\ res.statusCode = 500
                /\ res.body = InternalServerError

\* The file the public candidate yields: itself, or its index.html.
PublicYieldsFile ==
    \/ IsRegularFile(PublicCandidate)
    \/ IsDirectory(PublicCandidate) /\ IndexEntry(PublicCandidate).kind = "file"

PublicYield ==
    IF IsRegularFile(PublicCandidate) THEN PublicCandidate
    ELSE join(PublicCandidate, IndexHtml)

RootYieldsNothing ==
    \/ statSync(fs, RootCandidate).err = "ENOENT"
    \/ IsDirectory(RootCandidate) /\ IndexEntry(RootCandidate).kind = "none"

\* C10: a public candidate that is a directory with an index.html file is
\* answered with that file; one that is a directory without an index.html
\* file falls through, and is answered 404 Not Found when the root candidate
\* yields no file either.
C10_DirectoryIndex ==
    (phase = "done" /\ Decodable /\ IsDirectory(PublicCandidate)) =>
        /\ IndexEntry(PublicCandidate).kind = "file" =>
              resolution.outcome = "path"
              /\ resolution.path = join(PublicCandidate, IndexHtml)
        /\ (IndexEntry(PublicCandidate).kind # "file" /\ RootYieldsNothing) =>
              /\ res.statusCode = 404
              /\ res.body = <<Text("Not Found")>>

\* No event of the current exchange is outstanding: the response was ended
\* or the process died, or the client is gone and the stream stopped flowing.
AtRest == phase = "done" \/ (phase = "aborted" /\ stream.state = "open")

\* C11: on every exit path of a streamed response (end of file, stream
\* error, client disconnect before the body was sent) the file handle is
\* released: once nothing of the exchange is outstanding, no descriptor is
\* left open.
C11_HandleReleased == AtRest => ~stream.fd

\* What probing the two index.html candidates yields on the filesystem.
IndexResolution ==
    ProbeCandidates(fs, << join(PUBLIC_DIR, IndexHtml), join(ROOT_DIR, IndexHtml) >>, <<>>)

\* The response so far is the one a resolution r leads to: the fixed reply of
\* a failure, or the 200 header of the file, its type and the chunks read.
AnswersResolution(r) ==
    CASE r.outcome = "throw" -> res = Reply(500, "Internal Server Error")
      [] r.outcome = "null" -> res = Reply(404, "Not Found")
      [] OTHER -> /\ res.headCalls[1] = 200
                  /\ res.contentType = TypeByName(r.path)
                  /\ res.body = SubSeq(Bytes(Segments(r.path)), 1, stream.pos)

\* C12: when index.html exists in the public directory, the request / and the
\* request /index.html are resolved alike and answered with the same status,
\* content type and body: both get what probing the index.html candidates
\* yields.
C12_RootIsIndex ==
    (/\ phase # "idle"
     /\ req.present
     /\ req.url \in {<<"/">>, <<"/">> \o IndexHtml}
     /\ Lookup(fs, PublicIndex).kind # "none")
    => (resolution = IndexResolution /\ AnswersResolution(IndexResolution))

\* The request / was answered with the whole of public/index.html.
C12_Witness ==
    /\ phase = "done"
    /\ req.url = <<"/">>
    /\ Lookup(fs, PublicIndex).kind = "file"
    /\ stream.state = "ended"
    /\ res.body = Bytes(PublicIndex)

\* C13: a served file's Content-Type is the MIME table's entry for its
\* extension compared without regard to case (.PNG is image/png), and
\* application/octet-stream with status 200 when the extension is not in the
\* table or the name has none.
C13_TypeByExtension ==
    (phase # "idle" /\ resolution.outcome = "path")
    => (res.headCalls[1] = 200 /\ res.contentType = TypeByName(resolution.path))

\* b.PNG was served whole as image/png.
C13_Witness ==
    /\ phase = "done"
    /\ resolution.outcome = "path"
    /\ Last(Segments(resolution.path)) = Last(PublicPng)
    /\ stream.state = "ended"
    /\ res.statusCode = 200
    /\ res.contentType = "image/png"

\* The fixed body of each failure status.
FixedText(status) ==
    CASE status = 400 -> "Bad Request"
      [] status = 404 -> "Not Found"
      [] status = 500 -> "Internal Server Error"

\* C14: a response's status is 200, 400, 404 or 500; a response other than
\* 200 is plain text whose body is exactly the fixed text of its status, and
\* a 200 body holds file bytes only.
C14_FixedResponses ==
    /\ res.statusCode \in {0, 200, 400, 404, 500}
    /\ res.statusCode \in {400, 404, 500} =>
          (res.contentType = PlainText /\ res.body = <<Text(FixedText(res.statusCode))>>)
    /\ res.statusCode = 200 => \A i \in 1..Len(res.body) : res.body[i].text = ""

\* A probe failed with ENOTDIR and the client got the fixed 500 reply.
C14_Witness ==
    /\ phase = "done"
    /\ resolution.error = "ENOTDIR"
    /\ res.statusCode = 500
    /\ res.body = InternalServerError

\* C15: handling a request changes no state of the server that outlives the
\* exchange, so that a later request is answered as if it were the first: no
\* step takes the process from running to dead.
C15_NoServerState == [][crashed' = crashed]_vars

\* The part of a request target before its first literal "?".
RECURSIVE BeforeQuery(_)
BeforeQuery(u) ==
    IF u = <<>> \/ Head(u) = "?" THEN <<>> ELSE <<Head(u)>> \o BeforeQuery(Tail(u))

\* C16: the query is cut before anything else: a target p?q with p not empty
\* is resolved as p is, and an escaped %3F in p is decoded into the file name
\* that is probed (when no dot segment of p removes that name again).
C16_QueryStrippedFirst ==
    (phase # "idle" /\ req.present /\ BeforeQuery(req.url) # <<>>)
    => LET p == BeforeQuery(req.url) IN
       IF "%" \in Range(p) THEN resolution = Thrown("URIError", <<>>)
       ELSE /\ resolution = ProbeCandidates(fs, candidates(decodeURIComponent(p)), <<>>)
            /\ ("%3F" \in Range(p) /\ "." \notin Range(decodeURIComponent(p)))
                  => "?" \in Range(resolution.probes[1])

\* /a?a was answered with the whole of the file a.
C16_Witness ==
    /\ phase = "done"
    /\ req.url = <<"/", "a", "?", "a">>
    /\ resolution.outcome = "path"
    /\ Last(Segments(resolution.path)) = <<"a">>
    /\ stream.state = "ended"
    /\ res.body = Bytes(Segments(resolution.path))

\* =================================================================
\* assets/currency-language-persistence.js, lines 14-442: the selection
\* persistence.  loc holds the three stores, the page that is loaded, the
\* pending popstate timer and, as history, the user's last choices.
\* -----------------------------------------------------------------
\* null, undefined and the empty string: the falsy values of the script.
None == ""

\* CONFIG.storageKeys, lines 19-23.
storageKeys ==
    [country |-> "vironax_selected_country",
     locale |-> "vironax_selected_locale",
     currency |-> "vironax_selected_currency"]

StorageKeyNames == {storageKeys.country, storageKeys.locale, storageKeys.currency}

\* CountryData, lines 96-107.
CountryData ==
    ("AE" :> [currency |-> "AED", order |-> 1])
    @@ ("SA" :> [currency |-> "SAR", order |-> 2])
    @@ ("QA" :> [currency |-> "QAR", order |-> 3])
    @@ ("BH" :> [currency |-> "USD", order |-> 4])
    @@ ("JO" :> [currency |-> "USD", order |-> 5])
    @@ ("KW" :> [currency |-> "USD", order |-> 6])
    @@ ("OM" :> [currency |-> "USD", order |-> 7])
    @@ ("TR" :> [currency |-> "TRY", order |-> 8])
    @@ ("US" :> [currency |-> "USD", order |-> 9])
    @@ ("GB" :> [currency |-> "GBP", order |-> 10])

\* An item of a store: absent, or the JSON text of a string.
NoItem == <<>>

JSONstringify(value) == <<"json", value>>

IsJSON(text) == Len(text) = 2 /\ text[1] = "json"

JSONparse(text) == text[2]

EmptyStore == [k \in StorageKeyNames |-> NoItem]

\* How the browser treats a web storage area: "ok", "full" (setItem throws
\* QuotaExceededError, reading works) or "denied" (every access throws).
StorageModes == {"ok", "full", "denied"}

EmptyStorage ==
    [localStorage |-> EmptyStore, sessionStorage |-> EmptyStore, cookie |-> EmptyStore,
     mode |-> [localStorage |-> "ok", sessionStorage |-> "ok"]]

\* Storage.setCookie, lines 73-77.
Storage_setCookie(s, name, value) == [s EXCEPT !.cookie[name] = JSONstringify(value)]

\* Storage.set, lines 44-53: the three writes are one try block, the first
\* one that throws ends it.
Storage_set(s, key, value) ==
    IF s.mode.localStorage # "ok" THEN s
    ELSE LET l == [s EXCEPT !.localStorage[key] = JSONstringify(value)] IN
         IF s.mode.sessionStorage # "ok" THEN l
         ELSE Storage_setCookie([l EXCEPT !.sessionStorage[key] = JSONstringify(value)],
                                key, value)

\* Storage.getCookie, lines 79-92.
Storage_getCookie(s, name) ==
    IF s.cookie[name] # NoItem /\ IsJSON(s.cookie[name])
    THEN JSONparse(s.cookie[name]) ELSE None

\* Storage.get, lines 55-71: a getItem or a JSON.parse that throws yields
\* null.
Storage_get(s, key) ==
    IF s.mode.localStorage = "denied" THEN None
    ELSE IF s.localStorage[key] # NoItem
    THEN IF IsJSON(s.localStorage[key]) THEN JSONparse(s.localStorage[key]) ELSE None
    ELSE IF s.mode.sessionStorage = "denied" THEN None
    ELSE IF s.sessionStorage[key] # NoItem
    THEN IF IsJSON(s.sessionStorage[key]) THEN JSONparse(s.sessionStorage[key]) ELSE None
    ELSE Storage_getCookie(s, key)

\* What a page reports: the country and locale parameters of its URL, the
\* value of the option with aria-selected="true", window.Shopify.
PageCountries == {"AE", "SA"}

PageLocales == {"ar", "en"}

Pages ==
    [urlCountry : {None, "AE"},
     urlLocale : {None, "ar"},
     selected : {None, "SA"},
     shopifyCountry : PageCountries \cup {None},
     shopifyLocale : {None, "en"}]

BlankPage ==
    [urlCountry |-> None, urlLocale |-> None, selected |-> None,
     shopifyCountry |-> None, shopifyLocale |-> None]

\* The values of the options a user can click or pass to the API.
ChoiceCountries == {"AE", "SA", "ZZ"}

\* getCurrentSelections, lines 110-140.
getCurrentSelections(page) ==
    LET fromUrl == page.urlCountry
        fromButton == IF page.selected # None THEN page.selected ELSE fromUrl
        currentCountry ==
            IF page.shopifyCountry # None /\ fromButton = None
            THEN page.shopifyCountry ELSE fromButton
        currentLocale ==
            IF page.shopifyLocale # None /\ page.urlLocale = None
            THEN page.shopifyLocale ELSE page.urlLocale
    IN  [country |-> currentCountry, locale |-> currentLocale]

\* saveSelections, lines 143-155.
saveSelections(s, country, locale) ==
    LET withCountry ==
            IF country # None
            THEN LET c == Storage_set(s, storageKeys.country, country) IN
                 IF country \in DOMAIN CountryData
                 THEN Storage_set(c, storageKeys.currency, CountryData[country].currency)
                 ELSE c
            ELSE s
    IN  IF locale # None THEN Storage_set(withCountry, storageKeys.locale, locale)
        ELSE withCountry

\* window.VironaXLocalization.getSelectedCountry / getSelectedLocale /
\* getSelectedCurrency, lines 420-428.
getSelectedCountry == Storage_get(loc.storage, storageKeys.country)

getSelectedLocale == Storage_get(loc.storage, storageKeys.locale)

getSelectedCurrency == Storage_get(loc.storage, storageKeys.currency)

\* The server is not part of the behaviours of the browser scripts.
ServerIdle ==
    /\ fs = [n \in Nodes |-> NoEntry]
    /\ phase = "idle"
    /\ req = NoRequest
    /\ res = NewResponse
    /\ resolution = NoResolution
    /\ stream = NoStream
    /\ crashed = FALSE

\* The script has run on a first page that reports nothing, on empty stores
\* that accept writes.
InitPersist ==
    /\ ServerIdle
    /\ loc = [open |-> TRUE, storage |-> EmptyStorage, page |-> BlankPage,
              popTimer |-> FALSE, chosenCountry |-> None, chosenLocale |-> None]
    /\ enh = NoBrowser
    /\ sticky = NoBrowser
    /\ pop = NoBrowser

\* A page of the storefront is loaded and its init (lines 366-373) runs:
\* what the page reports is saved.  Timers of the page left behind are gone.
LoadPage(page) ==
    LET current == getCurrentSelections(page) IN
    /\ loc' = [loc EXCEPT
                 !.page = page,
                 !.popTimer = FALSE,
                 !.storage = IF current.country # None \/ current.locale # None
                             THEN saveSelections(@, current.country, current.locale)
                             ELSE @]
    /\ UNCHANGED <<serverVars, enh, sticky, pop>>

Navigate == \E page \in Pages : LoadPage(page)

\* The click listener, lines 203-218, on an option named country_code.
ClickCountry ==
    \E code \in ChoiceCountries :
        /\ loc' = [loc EXCEPT !.storage = saveSelections(@, code, None),
                              !.chosenCountry = code]
        /\ UNCHANGED <<serverVars, enh, sticky, pop>>

\* The click listener on an option named locale_code.
ClickLocale ==
    \E code \in PageLocales :
        /\ loc' = [loc EXCEPT !.storage = saveSelections(@, None, code),
                              !.chosenLocale = code]
        /\ UNCHANGED <<serverVars, enh, sticky, pop>>

\* window.VironaXLocalization.setCountry, lines 429-431.
setCountry ==
    \E code \in ChoiceCountries :
        /\ loc' = [loc EXCEPT !.storage = saveSelections(@, code, None),
                              !.chosenCountry = code]
        /\ UNCHANGED <<serverVars, enh, sticky, pop>>

\* window.VironaXLocalization.setLocale, lines 432-434.
setLocale ==
    \E code \in PageLocales :
        /\ loc' = [loc EXCEPT !.storage = saveSelections(@, None, code),
                              !.chosenLocale = code]
        /\ UNCHANGED <<serverVars, enh, sticky, pop>>

\* The submit listener, lines 221-236: the localization form is submitted
\* with the option the page marks as selected.
Submit ==
    /\ loc.page.selected # None
    /\ loc' = [loc EXCEPT !.storage = saveSelections(@, loc.page.selected, None)]
    /\ UNCHANGED <<serverVars, enh, sticky, pop>>

\* popstate, lines 239-245: history navigation changes the URL of the page
\* and the listener starts its 100 ms timer.
PopState ==
    \E country \in {None, "AE"}, locale \in {None, "ar"} :
        /\ loc' = [loc EXCEPT !.page.urlCountry = country, !.page.urlLocale = locale,
                              !.popTimer = TRUE]
        /\ UNCHANGED <<serverVars, enh, sticky, pop>>

\* The timer of the popstate listener, lines 241-244.
PopStateTimer ==
    /\ loc.popTimer
    /\ LET current == getCurrentSelections(loc.page) IN
       loc' = [loc EXCEPT !.popTimer = FALSE,
                          !.storage = saveSelections(@, current.country, current.locale)]
    /\ UNCHANGED <<serverVars, enh, sticky, pop>>

\* visibilitychange with the document visible again, lines 248-265.
VisibilityChange ==
    LET current == getCurrentSelections(loc.page)
        savedCountry == Storage_get(loc.storage, storageKeys.country)
        savedLocale == Storage_get(loc.storage, storageKeys.locale)
        afterCountry ==
            IF current.country # None /\ current.country # savedCountry
            THEN saveSelections(loc.storage, current.country, None) ELSE loc.storage
        afterLocale ==
            IF current.locale # None /\ current.locale # savedLocale
            THEN saveSelections(afterCountry, None, current.locale) ELSE afterCountry
    IN  /\ afterLocale # loc.storage
        /\ loc' = [loc EXCEPT !.storage = afterLocale]
        /\ UNCHANGED <<serverVars, enh, sticky, pop>>

NextPersist ==
    \/ Navigate
    \/ ClickCountry
    \/ ClickLocale
    \/ setCountry
    \/ setLocale
    \/ Submit
    \/ PopState
    \/ PopStateTimer
    \/ VisibilityChange

SpecPersist == InitPersist /\ [][NextPersist]_vars

\* C17: once the user has chosen a country or a locale, getSelectedCountry()
\* and getSelectedLocale() return the chosen value on every page loaded
\* afterwards, whatever that page reports, until the user chooses again.
C17_ChoicePersists ==
    /\ loc.chosenCountry # None => getSelectedCountry = loc.chosenCountry
    /\ loc.chosenLocale # None => getSelectedLocale = loc.chosenLocale

\* =================================================================
\* assets/currency-language-persistence.js: the dropdown enhancement of
\* lines 269-317 and its scheduling by init, lines 377-406.  enh holds the
\* country_code buttons of the page in document order, the buttons that got
\* a flag, the mutation records queued for the observer and the number of
\* pending enhancement timers.
\* -----------------------------------------------------------------
\* The sort key of reorderCountryDropdown, lines 280-281.
orderOf(code) == IF code \in DOMAIN CountryData THEN CountryData[code].order ELSE 999

\* Array.prototype.sort with the comparator of lines 277-283 (stable).
RECURSIVE InsertByOrder(_, _)
InsertByOrder(code, sorted) ==
    IF sorted = <<>> THEN <<code>>
    ELSE IF orderOf(code) < orderOf(Head(sorted)) THEN <<code>> \o sorted
    ELSE <<Head(sorted)>> \o InsertByOrder(code, Tail(sorted))

RECURSIVE SortByOrder(_)
SortByOrder(buttons) ==
    IF buttons = <<>> THEN <<>>
    ELSE InsertByOrder(buttons[Len(buttons)], SortByOrder(Front(buttons)))

\* The button lists of a page: distinct codes, at most MaxButtons of them.
ButtonLists ==
    { b \in UNION {[1..n -> ChoiceCountries] : n \in 0..MaxButtons} :
        \A i, j \in 1..Len(b) : i # j => b[i] # b[j] }

\* reorderCountryDropdown, lines 269-289: the buttons of a
\* .popover__value-list are appended to it again in sorted order; every
\* appendChild queues a record with one added node.
reorderCountryDropdown(e) ==
    IF e.inList /\ e.buttons # <<>>
    THEN [e EXCEPT !.buttons = SortByOrder(@), !.records = @ + Len(e.buttons)]
    ELSE e

\* The buttons enhanceCountryDisplay gives a flag: a known country, a text
\* span, no flag yet (lines 299-305).
Unflagged(e) ==
    { c \in Range(e.buttons) : c \in DOMAIN CountryData /\ e.hasSpan /\ c \notin e.flagged }

\* enhanceCountryDisplay, lines 292-317: every insertBefore queues a record
\* with one added node.
enhanceCountryDisplay(e) ==
    [e EXCEPT !.flagged = @ \cup Unflagged(e), !.records = @ + Cardinality(Unflagged(e))]

\* init has run on a page (lines 377-406): the 500 ms timer is pending and
\* the observer watches document.body.
InitEnhance ==
    /\ ServerIdle
    /\ loc = NoBrowser
    /\ sticky = NoBrowser
    /\ pop = NoBrowser
    /\ \E b \in ButtonLists, inList \in BOOLEAN, hasSpan \in BOOLEAN :
          enh = [open |-> TRUE, buttons |-> b, inList |-> inList, hasSpan |-> hasSpan,
                 flagged |-> {}, records |-> 0, timers |-> 1]

\* An enhancement timer fires (lines 378-381, 394-397).  Queued records are
\* delivered before the next timer callback runs.
EnhanceTimer ==
    /\ enh.timers > 0
    /\ enh.records = 0
    /\ enh' = enhanceCountryDisplay(reorderCountryDropdown([enh EXCEPT !.timers = @ - 1]))
    /\ UNCHANGED <<serverVars, loc, sticky, pop>>

\* The MutationObserver callback, lines 389-401: one timer for every record
\* with added nodes while the document has country_code buttons.
ObserverCallback ==
    /\ enh.records > 0
    /\ enh' = [enh EXCEPT
                 !.records = 0,
                 !.timers = IF enh.buttons = <<>> THEN @
                            ELSE IF @ + enh.records > MaxTimers THEN MaxTimers
                            ELSE @ + enh.records]
    /\ UNCHANGED <<serverVars, loc, sticky, pop>>

NextEnhance ==
    \/ EnhanceTimer
    \/ ObserverCallback

\* Timers that are due fire and queued records are delivered.
SpecEnhance ==
    /\ InitEnhance
    /\ [][NextEnhance]_vars
    /\ WF_vars(EnhanceTimer)
    /\ WF_vars(ObserverCallback)

\* C18: the enhancement comes to rest: from some point on no enhancement
\* timer is pending and no mutation record is queued.
C18_Quiesces == <>[](enh.timers = 0 /\ enh.records = 0)

\* =================================================================
\* assets/currency-language-persistence.js, lines 459-854: the sticky
\* elements controller.  sticky holds the data attributes of the page, the
\* scroll position, the module state of lines 478-481, the waiting flags of
\* the two throttle closures, touchStartY and, as history, what the last
\* processed frame saw.
\* -----------------------------------------------------------------
\* CONFIG.headerHideThreshold, CONFIG.trustBadgesShowAt, lines 464-465.
headerHideThreshold == 100

trustBadgesShowAt == 300

ScrollPositions == {i * 100 : i \in 0..MaxScroll}

ClientYs == {i * 100 : i \in 0..MaxTouch}

\* header.dataset.stickyBehavior || 'always', line 541.
StickyBehaviors == {"always", "hide-on-scroll-down"}

\* The trust badges of a page: absent, present without data-sticky="true",
\* or sticky with a data-show-after attribute that is missing ("") or holds
\* a number.
BadgeSettings ==
    {[present |-> p, sticky |-> FALSE, showAfter |-> ""] : p \in BOOLEAN}
    \cup {[present |-> TRUE, sticky |-> TRUE, showAfter |-> a] : a \in {"", "0", "200"}}

\* parseInt of an attribute value: NaN for a missing attribute.
parseInt(text) ==
    CASE text = "0" -> [nan |-> FALSE, value |-> 0]
      [] text = "200" -> [nan |-> FALSE, value |-> 200]
      [] OTHER -> [nan |-> TRUE, value |-> 0]

\* parseInt(badges.dataset.showAfter) || CONFIG.trustBadgesShowAt, line 594:
\* NaN and 0 are falsy.
showAfterOf(badges) ==
    LET n == parseInt(badges.showAfter) IN
    IF n.nan \/ n.value = 0 THEN trustBadgesShowAt ELSE n.value

\* handleHeaderScroll, lines 536-562, with getScrollDirection, 515-520.
handleHeaderScroll(s) ==
    IF s.stickyBehavior = "always" THEN s
    ELSE LET currentScrollY == s.scrollY
             direction == IF currentScrollY > s.lastScrollY THEN "down" ELSE "up"
             t == [s EXCEPT !.lastScrollY = currentScrollY]
         IN  IF currentScrollY < headerHideThreshold
             THEN [t EXCEPT !.headerHidden = FALSE]
             ELSE IF direction = "down" /\ ~t.headerHidden
                  THEN [t EXCEPT !.headerHidden = TRUE]
             ELSE IF direction = "up" /\ t.headerHidden
                  THEN [t EXCEPT !.headerHidden = FALSE]
             ELSE t

\* handleTrustBadgesScroll, lines 585-601.
handleTrustBadgesScroll(s) ==
    IF ~s.badges.sticky THEN s
    ELSE IF s.scrollY > showAfterOf(s.badges) /\ ~s.trustBadgesVisible
         THEN [s EXCEPT !.trustBadgesVisible = TRUE]
    ELSE IF s.scrollY <= showAfterOf(s.badges) /\ s.trustBadgesVisible
         THEN [s EXCEPT !.trustBadgesVisible = FALSE]
    ELSE s

\* How the position of a frame compares with the one of the frame before.
Delta(y, before) == IF y > before THEN "down" ELSE IF y < before THEN "up" ELSE "same"

\* init has run (lines 700-730) on a page at its top.
InitSticky ==
    /\ ServerIdle
    /\ loc = NoBrowser
    /\ enh = NoBrowser
    /\ pop = NoBrowser
    /\ \E behavior \in StickyBehaviors, badges \in BadgeSettings :
          sticky = [open |-> TRUE, stickyBehavior |-> behavior, badges |-> badges,
                    scrollY |-> 0, lastScrollY |-> 0, ticking |-> FALSE,
                    headerHidden |-> FALSE, trustBadgesVisible |-> FALSE,
                    waiting |-> FALSE, touchWaiting |-> FALSE, touchStartY |-> 0,
                    frameY |-> 0, frameDelta |-> "none", apiSinceFrame |-> FALSE]

\* onScroll, lines 683-692.
onScroll(s) == [s EXCEPT !.ticking = TRUE]

\* The page scrolls to y and the scroll event reaches the throttled
\* listener of line 708 (throttle, lines 492-503).
Scroll ==
    \E y \in ScrollPositions \ {sticky.scrollY} :
        /\ sticky' = IF sticky.waiting
                     THEN [sticky EXCEPT !.scrollY = y]
                     ELSE [onScroll([sticky EXCEPT !.scrollY = y]) EXCEPT !.waiting = TRUE]
        /\ UNCHANGED <<serverVars, loc, enh, pop>>

\* The timer of the scroll throttle, lines 498-500.
ThrottleTimer ==
    /\ sticky.waiting
    /\ sticky' = [sticky EXCEPT !.waiting = FALSE]
    /\ UNCHANGED <<serverVars, loc, enh, pop>>

\* The animation frame callback of onScroll, lines 685-689.
Frame ==
    /\ sticky.ticking
    /\ sticky' = [handleTrustBadgesScroll(handleHeaderScroll(sticky)) EXCEPT
                    !.ticking = FALSE,
                    !.apiSinceFrame = FALSE,
                    !.frameY = sticky.scrollY,
                    !.frameDelta = IF sticky.frameDelta = "none" THEN "first"
                                   ELSE Delta(sticky.scrollY, sticky.frameY)]
    /\ UNCHANGED <<serverVars, loc, enh, pop>>

\* touchstart, lines 715-717.
TouchStart ==
    \E clientY \in ClientYs \ {sticky.touchStartY} :
        /\ sticky' = [sticky EXCEPT !.touchStartY = clientY]
        /\ UNCHANGED <<serverVars, loc, enh, pop>>

\* touchmove through its throttle, lines 719-727.
TouchMove ==
    \E touchY \in ClientYs :
        LET diff == sticky.touchStartY - touchY
            absDiff == IF diff < 0 THEN -diff ELSE diff
        IN  /\ ~sticky.touchWaiting
            /\ sticky' = [sticky EXCEPT
                            !.touchWaiting = TRUE,
                            !.lastScrollY = IF absDiff > 5 THEN sticky.scrollY + diff ELSE @]
            /\ UNCHANGED <<serverVars, loc, enh, pop>>

\* The timer of the touchmove throttle.
TouchTimer ==
    /\ sticky.touchWaiting
    /\ sticky' = [sticky EXCEPT !.touchWaiting = FALSE]
    /\ UNCHANGED <<serverVars, loc, enh, pop>>

\* showTrustBadges, lines 604-621.
showTrustBadges(s) == IF ~s.badges.present THEN s ELSE [s EXCEPT !.trustBadgesVisible = TRUE]

\* hideTrustBadges, lines 624-642.
hideTrustBadges(s) == IF ~s.badges.present THEN s ELSE [s EXCEPT !.trustBadgesVisible = FALSE]

\* window.VironaXSticky.showTrustBadges, line 848, called by a page script.
ApiShowTrustBadges ==
    /\ sticky' = [showTrustBadges(sticky) EXCEPT !.apiSinceFrame = TRUE]
    /\ UNCHANGED <<serverVars, loc, enh, pop>>

\* window.VironaXSticky.hideTrustBadges, line 849, called by a page script.
ApiHideTrustBadges ==
    /\ sticky' = [hideTrustBadges(sticky) EXCEPT !.apiSinceFrame = TRUE]
    /\ UNCHANGED <<serverVars, loc, enh, pop>>

NextSticky ==
    \/ ApiShowTrustBadges
    \/ ApiHideTrustBadges
    \/ Scroll
    \/ ThrottleTimer
    \/ Frame
    \/ TouchStart
    \/ TouchMove
    \/ TouchTimer

SpecSticky == InitSticky /\ [][NextSticky]_vars

\* C19: with hide-on-scroll-down and a position at or above the threshold,
\* after a processed frame that is not the first the header is hidden when
\* the position increased since the frame processed before, and shown when
\* it decreased, whatever touch events came in between.
C19_HeaderFollowsScroll ==
    (sticky.stickyBehavior = "hide-on-scroll-down" /\ sticky.frameY >= headerHideThreshold)
    => /\ sticky.frameDelta = "down" => sticky.headerHidden
       /\ sticky.frameDelta = "up" => ~sticky.headerHidden

\* No frame and no throttle timer is outstanding.
StickyAtRest == ~sticky.ticking /\ ~sticky.waiting /\ ~sticky.touchWaiting

\* C20: once every timer and frame has run after a sequence of scroll events
\* (no call of the public API since the last frame), the sticky elements show
\* what the handlers compute for the final scroll position: sticky trust
\* badges are visible exactly when the position is beyond their show-after
\* distance, and the header is shown when the position is below the hide
\* threshold.
C20_FinalPositionProcessed ==
    (StickyAtRest /\ ~sticky.apiSinceFrame) =>
        /\ sticky.badges.sticky =>
              (sticky.trustBadgesVisible <=> sticky.scrollY > showAfterOf(sticky.badges))
        /\ sticky.scrollY < headerHideThreshold => ~sticky.headerHidden

\* The show-after distance a badge element asks for: the integer of its
\* data-show-after attribute when it has one, 300 when it has none.
GivenShowAfter(badges) ==
    CASE badges.showAfter = "0" -> 0
      [] badges.showAfter = "200" -> 200
      [] OTHER -> 300

\* C21: for badges with data-sticky="true", after every processed scroll
\* frame the badges are visible exactly when scrollY is beyond the distance
\* given in data-show-after (0 included; 300 when none is given), also when
\* the public API showed or hid them between frames.
C21_BadgesFollowScroll ==
    [][(sticky.ticking /\ ~sticky'.ticking /\ sticky'.badges.sticky)
        => (sticky'.trustBadgesVisible <=> sticky'.scrollY > GivenShowAfter(sticky'.badges))]_vars

\* C22: the stored currency is the one of the stored country: it equals
\* CountryData[country].currency, and no currency is stored when the stored
\* country has no CountryData entry.
C22_CurrencyMatchesCountry ==
    getSelectedCountry # None =>
        IF getSelectedCountry \in DOMAIN CountryData
        THEN getSelectedCurrency = CountryData[getSelectedCountry].currency
        ELSE getSelectedCurrency = None

\* =================================================================
\* Storage.set and Storage.get on their own (lines 43-93), over stores that
\* hold what earlier visits and other scripts left in them and that the
\* browser may refuse to write or to open.  Here loc holds the stores, the
\* value last passed to Storage.set for every key, and the last result of
\* Storage.get.
\* -----------------------------------------------------------------
\* An entry that is not JSON.
Garbage == <<"garbage">>

\* What a store holds for the country key when the script starts.
OlderItems == {NoItem, JSONstringify("AE"), Garbage}

NoResult == [key |-> None, value |-> None]

InitStorage ==
    /\ ServerIdle
    /\ enh = NoBrowser
    /\ sticky = NoBrowser
    /\ pop = NoBrowser
    /\ \E l \in OlderItems, ss \in OlderItems, c \in OlderItems,
          lm \in StorageModes, sm \in StorageModes :
          loc = [open |-> TRUE,
                 storage |->
                     [localStorage |-> [EmptyStore EXCEPT ![storageKeys.country] = l],
                      sessionStorage |-> [EmptyStore EXCEPT ![storageKeys.country] = ss],
                      cookie |-> [EmptyStore EXCEPT ![storageKeys.country] = c],
                      mode |-> [localStorage |-> lm, sessionStorage |-> sm]],
                 lastSet |-> [k \in StorageKeyNames |-> None],
                 result |-> NoResult]

\* A call Storage.set(key, value).
StorageSet ==
    \E key \in {storageKeys.country, storageKeys.locale}, value \in {"SA"} :
        /\ loc' = [loc EXCEPT !.storage = Storage_set(@, key, value),
                              !.lastSet[key] = value,
                              !.result = NoResult]
        /\ UNCHANGED <<serverVars, enh, sticky, pop>>

\* A call Storage.get(key).
StorageGet ==
    \E key \in {storageKeys.country, storageKeys.locale} :
        /\ loc' = [loc EXCEPT !.result = [key |-> key, value |-> Storage_get(loc.storage, key)]]
        /\ UNCHANGED <<serverVars, enh, sticky, pop>>

NextStorage ==
    \/ StorageSet
    \/ StorageGet

SpecStorage == InitStorage /\ [][NextStorage]_vars

\* C23: sessionStorage and the cookie back localStorage up: when the
\* localStorage write of Storage.set(key, value) fails and sessionStorage
\* accepts writes, sessionStorage and the cookie hold the value and a
\* following Storage.get(key) returns it.
C23_BackupsWritten ==
    \A key \in StorageKeyNames :
        (/\ loc.lastSet[key] # None
         /\ loc.storage.mode.localStorage # "ok"
         /\ loc.storage.mode.sessionStorage = "ok")
        => /\ loc.storage.sessionStorage[key] = JSONstringify(loc.lastSet[key])
           /\ loc.storage.cookie[key] = JSONstringify(loc.lastSet[key])
           /\ Storage_get(loc.storage, key) = loc.lastSet[key]

\* The value of the first store, in the order localStorage, sessionStorage,
\* cookie, that can be read and holds JSON for key; None when there is none.
FirstReadable(s, key) ==
    IF s.mode.localStorage # "denied" /\ IsJSON(s.localStorage[key])
    THEN JSONparse(s.localStorage[key])
    ELSE IF s.mode.sessionStorage # "denied" /\ IsJSON(s.sessionStorage[key])
    THEN JSONparse(s.sessionStorage[key])
    ELSE IF IsJSON(s.cookie[key]) THEN JSONparse(s.cookie[key])
    ELSE None

\* C24: Storage.get(key) returns the value of the first of localStorage,
\* sessionStorage and cookie that holds a readable value, null only when
\* none does; an entry that is not JSON does not end the search.
C24_FirstReadableValue ==
    loc.result.key # None => loc.result.value = FirstReadable(loc.storage, loc.result.key)

\* ------------------------------------------- popover click handling
\* src/assets/vironax-localization-fix.js, lines 14-303: the toggle buttons
\* of the localization selectors and the popovers they control.

\* The number of toggle buttons on the page, each with its own popover.
MaxPopovers == 2

PopoverIds == 1..MaxPopovers

\* The elements an aria-controls attribute of a toggle can name. native says
\* what typeof popover.show / popover.hide find: "none" (no such method),
\* "works", "throws". A <dialog> has show() and no hide().
PopoverKinds ==
    {[tag |-> "x-popover", vironax |-> FALSE, show |-> n, hide |-> n] :
        n \in {"none", "works", "throws"}}
    \cup {[tag |-> "div", vironax |-> c, show |-> "none", hide |-> "none"] :
        c \in BOOLEAN}
    \cup {[tag |-> "dialog", vironax |-> c, show |-> "works", hide |-> "none"] :
        c \in BOOLEAN}

\* A popover nobody has opened: no open attribute, no is-open class, no
\* inline display.
ClosedPopover(kind) ==
    [kind |-> kind, open |-> FALSE, isOpenClass |-> FALSE, styleDisplay |-> ""]

\* Line 89-91, the test of togglePopover. The computed display of a popover
\* is not 'none' when its inline style says block or when it carries the open
\* attribute or the is-open class; the stylesheet hides it otherwise.
isOpen(popover) ==
    popover.open \/ popover.isOpenClass \/ popover.styleDisplay = "block"

\* Lines 105-137. The native show() sets the open attribute and the function
\* returns (line 110); otherwise lines 120-130 set attribute, class, inline
\* style and the button's aria-expanded.
showPopover(p, i) ==
    IF p.popovers[i].kind.show = "works"
    THEN [p EXCEPT !.popovers[i].open = TRUE]
    ELSE [p EXCEPT !.popovers[i].open = TRUE,
                   !.popovers[i].isOpenClass = TRUE,
                   !.popovers[i].styleDisplay = "block",
                   !.expanded[i] = TRUE]

\* Lines 142-168. The native hide() removes the open attribute and the
\* function returns (line 147); otherwise lines 154-164.
hidePopover(p, i) ==
    IF p.popovers[i].kind.hide = "works"
    THEN [p EXCEPT !.popovers[i].open = FALSE]
    ELSE [p EXCEPT !.popovers[i].open = FALSE,
                   !.popovers[i].isOpenClass = FALSE,
                   !.popovers[i].styleDisplay = "",
                   !.expanded[i] = FALSE]

\* Line 196-198: the selector of closeAllPopovers.
Selected(popover) ==
    /\ popover.kind.vironax \/ popover.kind.tag = "x-popover"
    /\ popover.open \/ popover.isOpenClass

RECURSIVE hideFrom(_, _)
hideFrom(p, i) ==
    IF i > MaxPopovers THEN p
    ELSE hideFrom(IF Selected(p.popovers[i]) THEN hidePopover(p, i) ELSE p, i + 1)

\* Lines 195-208: every selected popover is hidden, in document order.
closeAllPopovers(p) == hideFrom(p, 1)

\* Lines 88-103.
togglePopover(p, i) ==
    IF isOpen(p.popovers[i]) THEN hidePopover(p, i)
    ELSE showPopover(closeAllPopovers(p), i)

\* initLocalizationFix has run (lines 25-43): every toggle button of the page
\* is enhanced, every popover is closed.
InitPopover ==
    /\ ServerIdle
    /\ loc = NoBrowser
    /\ enh = NoBrowser
    /\ sticky = NoBrowser
    /\ \E kinds \in [PopoverIds -> PopoverKinds] :
          pop = [open |-> TRUE,
                 popovers |-> [i \in PopoverIds |-> ClosedPopover(kinds[i])],
                 expanded |-> [i \in PopoverIds |-> FALSE],
                 lastOpened |-> 0]

\* Lines 59-76: the click handler of an enhanced toggle button whose
\* aria-controls names popover i. stopPropagation keeps the click from the
\* document's handlers. lastOpened is the popover this click opened, 0 when
\* the click closed one.
ClickToggle ==
    \E i \in PopoverIds :
        /\ pop' = [togglePopover(pop, i) EXCEPT
                      !.lastOpened = IF isOpen(pop.popovers[i]) THEN 0 ELSE i]
        /\ UNCHANGED <<serverVars, loc, enh, sticky>>

\* Lines 246-253: a click outside the toggles and the popovers.
ClickOutside ==
    /\ pop' = [closeAllPopovers(pop) EXCEPT !.lastOpened = 0]
    /\ UNCHANGED <<serverVars, loc, enh, sticky>>

\* Lines 256-260: the Escape key.
KeyEscape ==
    /\ pop' = [closeAllPopovers(pop) EXCEPT !.lastOpened = 0]
    /\ UNCHANGED <<serverVars, loc, enh, sticky>>

NextPopover == ClickToggle \/ ClickOutside \/ KeyEscape

SpecPopover == InitPopover /\ [][NextPopover]_vars

\* C25: after a toggle click has opened a popover, no other popover
\* controlled by an enhanced toggle button is open, whatever its tag or class
\* and however it was opened.
C25_OnlyOneOpen ==
    pop.lastOpened # 0 =>
        \A j \in PopoverIds : j # pop.lastOpened => ~isOpen(pop.popovers[j])

====
